---- MODULE Spec2Model ----
(***************************************************************************)
(* A model of cascade's compiler front end (src/src/cascade/compiler):     *)
(* the validating TaskAST constructor, normalize_dependencies,             *)
(* propogate_properties and ProcessedAST.from_raw_ast; and of the          *)
(* optimizer (src/src/cascade/optimizer/models.py): the constraint model   *)
(* built from a ProcessedAST and the three solves of schedule().           *)
(*                                                                         *)
(* A task list is a sequence of task records.  Task ids are integers (the  *)
(* program's ids are strings; only their equality is used).  A Python      *)
(* object reference is an index into the sequence: get_tasks() iterates    *)
(* the indices, get_tasks_in_dict() maps an id to the index of the LAST    *)
(* task carrying it, as dict((x.id, x) for x in tasks) does.               *)
(***************************************************************************)
EXTENDS Integers, Sequences, FiniteSets, TLC

VARIABLES
    config,     \* TaskAST.config: [default_tz]
    raw,        \* the task list handed to the TaskAST constructor
    pc,         \* position inside TaskAST.check / the running pass
    ast,        \* TaskAST.tasks of the object under construction / constructed
    error,      \* the exception raised by the constructor, "none" if none
    result,     \* what the last finished pass returned (or raised)
    sched,      \* the state of one schedule(ast, start, end) call
    state       \* the REPL's AppState, with the file and calendar it reads

vars == <<config, raw, pc, ast, error, result, sched, state>>

-----------------------------------------------------------------------------
(* Bounds of the explored inputs *)

MaxTasks == 3      \* tasks in the list
MaxDeps == 2       \* entries over all deps.before / deps.after sets
MaxSubs == 2       \* entries over all Goal.subtasks lists
MaxDdl == 2        \* declared deadlines are wall-clock hours 1..MaxDdl
MaxEdges == 3      \* deps + subtasks entries of one input
MaxDeadlines == 2  \* tasks of one input that declare a deadline

Refs == 1..MaxTasks

RangeOf(s) == {s[i] : i \in DOMAIN s}

-----------------------------------------------------------------------------
(* datetimes *)

\* deadline: Optional[NaiveDatetime] = None
NoDeadline == [has |-> FALSE, wall |-> 0, tz |-> "naive"]

NaiveDt(w) == [has |-> TRUE, wall |-> w, tz |-> "naive"]

TzNames == {"utc", "east"}

\* the zone's offset from UTC, in hours
UtcOffset(tz) == IF tz = "east" THEN 1 ELSE 0

\* datetime.replace(tzinfo=tz): same wall clock, new zone
ReplaceTzinfo(dt, tz) == [dt EXCEPT !.tz = tz]

\* datetime comparison raises TypeError between a naive and an aware value
DtComparable(a, b) == (a.tz = "naive") <=> (b.tz = "naive")

\* a > b for two naive values (wall clocks) or two aware values (instants)
DtGreater(a, b) ==
    IF a.tz = "naive" THEN a.wall > b.wall
    ELSE a.wall - UtcOffset(a.tz) > b.wall - UtcOffset(b.tz)

-----------------------------------------------------------------------------
(* TaskAST accessors *)

get_ids(ts) == {ts[i].id : i \in DOMAIN ts}

\* id -> index of the task object the dict holds for it (the last one)
get_tasks_in_dict(ts) ==
    [id \in get_ids(ts) |->
        CHOOSE i \in DOMAIN ts :
            ts[i].id = id /\ \A j \in DOMAIN ts : ts[j].id = id => j <= i]

IsGoal(t) == t.kind = "goal"
IsStep(t) == t.kind = "step"

get_steps(ts) == SelectSeq(ts, IsStep)

get_goals(ts) == {i \in DOMAIN ts : IsGoal(ts[i])}

-----------------------------------------------------------------------------
(* check_refs *)

BaseTask_check_refs(t, ts) ==
    {x \in t.deps.before \cup t.deps.after : x \notin get_ids(ts)}

\* a check_refs of Goal that does not look at the subtasks list
Goal_check_refs_NoSubtasks(t, ts) == BaseTask_check_refs(t, ts)

Goal_check_refs(t, ts) ==
    {x \in RangeOf(t.subtasks) : x \notin get_ids(ts)}
        \cup BaseTask_check_refs(t, ts)

\* the set of undefined ids; the constructor raises when it is not empty
TaskAST_check_refs(ts) ==
    UNION {IF IsGoal(ts[i]) THEN Goal_check_refs(ts[i], ts)
                            ELSE BaseTask_check_refs(ts[i], ts) : i \in DOMAIN ts}

-----------------------------------------------------------------------------
(* _invert_dependencies, _convert_goal_to_deps *)

RECURSIVE InvertFrom(_, _)
InvertFrom(ts, i) ==
    IF i > Len(ts) THEN ts
    ELSE LET d == get_tasks_in_dict(ts)
             targets == {d[t] : t \in ts[i].deps.before}
             added == [k \in DOMAIN ts |->
                         IF k \in targets
                         THEN [ts[k] EXCEPT !.deps.after = @ \cup {ts[i].id}]
                         ELSE ts[k]]
         IN InvertFrom([added EXCEPT ![i].deps.before = {}], i + 1)

_invert_dependencies(ts) == InvertFrom(ts, 1)

_convert_goal_to_deps(ts) ==
    [i \in DOMAIN ts |->
        IF IsGoal(ts[i])
        THEN [ts[i] EXCEPT !.deps.after = @ \cup RangeOf(ts[i].subtasks)]
        ELSE ts[i]]

-----------------------------------------------------------------------------
(* check_deadlines *)

\* the conflicting ids of task t (of the inverted copy), deadlines read from ts
BaseTask_check_deadlines(t, ts) ==
    IF ~t.deadline.has THEN {}
    ELSE {x \in t.deps.after :
            LET subtask == ts[get_tasks_in_dict(ts)[x]]
            IN subtask.deadline.has /\ DtGreater(subtask.deadline, t.deadline)}

\* TRUE when the constructor raises the deadline error
TaskAST_check_deadlines(ts) ==
    LET self_copy == _convert_goal_to_deps(_invert_dependencies(ts))
    IN \E i \in DOMAIN self_copy :
          BaseTask_check_deadlines(self_copy[i], ts) # {}

-----------------------------------------------------------------------------
(* inject_implicit_deps *)

RECURSIVE InjectFrom(_, _, _)
InjectFrom(ts, g, i) ==
    LET subs == ts[g].subtasks
    IN IF i > Len(subs) THEN ts
       ELSE LET k == get_tasks_in_dict(ts)[subs[i]]
            IN InjectFrom(
                 [ts EXCEPT ![k].deps.after = @ \cup RangeOf(SubSeq(subs, 1, i - 1))],
                 g, i + 1)

Goal_inject_implicit_deps(ts, g) ==
    IF ts[g].implicit_deps_by_order THEN InjectFrom(ts, g, 2) ELSE ts

RECURSIVE InjectGoalsFrom(_, _)
InjectGoalsFrom(ts, g) ==
    IF g > Len(ts) THEN ts
    ELSE InjectGoalsFrom(
            IF IsGoal(ts[g]) THEN Goal_inject_implicit_deps(ts, g) ELSE ts, g + 1)

\* for goal in self.get_goals(): goal.inject_implicit_deps(self)
InjectAllGoals(ts) == InjectGoalsFrom(ts, 1)

-----------------------------------------------------------------------------
(* check_deps_graph: depth-first search with the shared `safe` list *)

RECURSIVE BaseTask_check_deps_graph(_, _, _, _)
RECURSIVE VisitDeps(_, _, _, _)

\* the task object k; returns the new `safe`, whether it raised, and the path
BaseTask_check_deps_graph(ts, k, safe, stack) ==
    IF ts[k].id \in safe THEN [safe |-> safe, raised |-> FALSE, path |-> <<>>]
    ELSE IF ts[k].id \in RangeOf(stack)
    THEN [safe |-> safe, raised |-> TRUE, path |-> Append(stack, ts[k].id)]
    ELSE LET r == VisitDeps(ts, ts[k].deps.after, safe, Append(stack, ts[k].id))
         IN IF r.raised THEN r
            ELSE [safe |-> r.safe \cup {ts[k].id}, raised |-> FALSE, path |-> <<>>]

VisitDeps(ts, deps, safe, stack) ==
    IF deps = {} THEN [safe |-> safe, raised |-> FALSE, path |-> <<>>]
    ELSE LET dep == CHOOSE x \in deps : TRUE
             r == BaseTask_check_deps_graph(ts, get_tasks_in_dict(ts)[dep], safe, stack)
         IN IF r.raised THEN r ELSE VisitDeps(ts, deps \ {dep}, r.safe, stack)

RECURSIVE CheckGraphFrom(_, _, _)
CheckGraphFrom(ts, i, safe) ==
    IF i > Len(ts) THEN [safe |-> safe, raised |-> FALSE, path |-> <<>>]
    ELSE LET r == BaseTask_check_deps_graph(ts, i, safe, <<>>)
         IN IF r.raised THEN r ELSE CheckGraphFrom(ts, i + 1, r.safe)

\* the outcome of the search over the inverted copy with goals made explicit
TaskAST_check_deps_graph(ts) ==
    CheckGraphFrom(_convert_goal_to_deps(_invert_dependencies(ts)), 1, {})

-----------------------------------------------------------------------------
(* normalize_dependencies *)

RECURSIVE collect_leaf_tasks(_, _, _)
\* the leaf step ids under the goal object g.  `active` holds the goal objects
\* whose call is on the Python stack: reaching one of them again recurses
\* without end, which Python ends with RecursionError.
collect_leaf_tasks(ts, g, active) ==
    IF g \in active THEN [leaves |-> {}, raised |-> "RecursionError"]
    ELSE LET d == get_tasks_in_dict(ts)
             sub == [s \in RangeOf(ts[g].subtasks) |->
                       IF IsStep(ts[d[s]])
                       THEN [leaves |-> {s}, raised |-> "none"]
                       ELSE collect_leaf_tasks(ts, d[s], active \cup {g})]
         IN [leaves |-> UNION {sub[s].leaves : s \in DOMAIN sub},
             raised |-> IF \E s \in DOMAIN sub : sub[s].raised # "none"
                        THEN "RecursionError" ELSE "none"]

RECURSIVE ExpandGoals(_, _, _)
\* for t in task.deps.after: a goal t is replaced in `res` by its leaf steps
ExpandGoals(ts, todo, res) ==
    IF todo = {} THEN [after |-> res, raised |-> "none"]
    ELSE LET t == CHOOSE x \in todo : TRUE
             k == get_tasks_in_dict(ts)[t]
             c == collect_leaf_tasks(ts, k, {})
         IN IF ~IsGoal(ts[k]) THEN ExpandGoals(ts, todo \ {t}, res)
            ELSE IF c.raised # "none" THEN [after |-> res, raised |-> c.raised]
            ELSE ExpandGoals(ts, todo \ {t}, (res \cup c.leaves) \ {t})

\* the steps normalize_dependencies returns, or the exception it raises
normalize_dependencies(ts) ==
    LET self_copy == _invert_dependencies(ts)
        e == [i \in DOMAIN self_copy |->
                ExpandGoals(self_copy, self_copy[i].deps.after,
                            self_copy[i].deps.after)]
    IN IF \E i \in DOMAIN e : e[i].raised # "none"
       THEN [steps |-> <<>>, raised |-> "RecursionError"]
       ELSE [steps |-> get_steps([i \in DOMAIN self_copy |->
                          [self_copy[i] EXCEPT !.deps.after = e[i].after]]),
             raised |-> "none"]

-----------------------------------------------------------------------------
(* topo_sort *)

RECURSIVE TopoLayers(_)
\* rem: id -> remaining deps.after, for the ids not yet sorted.  The layers
\* popped by the while loop, and whether ids are left over (not a DAG).
TopoLayers(rem) ==
    LET ids_with_no_inbound == {id \in DOMAIN rem : rem[id] = {}}
    IN IF ids_with_no_inbound = {}
       THEN [layers |-> <<>>, raised |-> DOMAIN rem # {}]
       ELSE LET rest == TopoLayers(
                    [id \in DOMAIN rem \ ids_with_no_inbound |->
                        rem[id] \ ids_with_no_inbound])
            IN [layers |-> <<ids_with_no_inbound>> \o rest.layers,
                raised |-> rest.raised]

RECURSIVE Orderings(_)
\* the orders in which `for id in <set>` can iterate
Orderings(S) ==
    IF S = {} THEN {<<>>}
    ELSE UNION {{<<x>> \o o : o \in Orderings(S \ {x})} : x \in S}

RECURSIVE ConcatLayers(_)
ConcatLayers(layers) ==
    IF layers = <<>> THEN {<<>>}
    ELSE {a \o b : a \in Orderings(Head(layers)), b \in ConcatLayers(Tail(layers))}

topo_sort_layers(ts) ==
    LET self_copy == _convert_goal_to_deps(_invert_dependencies(ts))
        d == get_tasks_in_dict(self_copy)
    IN TopoLayers([id \in DOMAIN d |-> self_copy[d[id]].deps.after])

\* the lists topo_sort can return; set iteration order is not fixed
topo_sort(ts) == ConcatLayers(topo_sort_layers(ts).layers)

Reverse(s) == [i \in 1..Len(s) |-> s[Len(s) + 1 - i]]

-----------------------------------------------------------------------------
(* propogate_properties *)

\* tz = self.timezone or default; deadline.replace(tzinfo=tz) if a deadline
update_timezone(t, default) ==
    LET tz == IF t.timezone # "none" THEN t.timezone ELSE default
    IN IF t.deadline.has THEN [t EXCEPT !.deadline = ReplaceTzinfo(@, tz)] ELSE t

\* TRUE when `x > ddl` raises TypeError inside update_ddl
update_ddl_raises(t, ddl) == t.deadline.has /\ ~DtComparable(t.deadline, ddl)

update_ddl(t, ddl) ==
    IF ~t.deadline.has THEN [t EXCEPT !.deadline = ddl]
    ELSE IF DtGreater(t.deadline, ddl) THEN [t EXCEPT !.deadline = ddl]
    ELSE t

RECURSIVE propogate_ddl_from(_, _, _)
\* Goal.propogate_ddl of object g from subtask position i on
propogate_ddl_from(ts, g, i) ==
    IF i > Len(ts[g].subtasks) THEN [tasks |-> ts, raised |-> "none"]
    ELSE LET k == get_tasks_in_dict(ts)[ts[g].subtasks[i]]
         IN IF update_ddl_raises(ts[k], ts[g].deadline)
            THEN [tasks |-> ts, raised |-> "TypeError"]
            ELSE propogate_ddl_from(
                    [ts EXCEPT ![k] = update_ddl(@, ts[g].deadline)], g, i + 1)

propogate_ddl(ts, g) ==
    IF IsGoal(ts[g]) /\ ts[g].deadline.has THEN propogate_ddl_from(ts, g, 1)
    ELSE [tasks |-> ts, raised |-> "none"]

RECURSIVE propogate_priority_from(_, _, _)
propogate_priority_from(ts, g, i) ==
    IF i > Len(ts[g].subtasks) THEN ts
    ELSE LET k == get_tasks_in_dict(ts)[ts[g].subtasks[i]]
         IN propogate_priority_from(
               [ts EXCEPT ![k].priority = @ * ts[g].priority], g, i + 1)

propogate_priority(ts, g) ==
    IF IsGoal(ts[g]) THEN propogate_priority_from(ts, g, 1) ELSE ts

RECURSIVE PropagateLoop(_, _, _)
\* the loop over reversed(topo_sort()) on result_copy
PropagateLoop(ts, queue, default) ==
    IF queue = <<>> THEN [tasks |-> ts, raised |-> "none"]
    ELSE LET k == get_tasks_in_dict(ts)[Head(queue)]
             zoned == [ts EXCEPT ![k] = update_timezone(@, default)]
             r == propogate_ddl(zoned, k)
         IN IF r.raised # "none" THEN r
            ELSE PropagateLoop(propogate_priority(r.tasks, k), Tail(queue), default)

\* the results propogate_properties can return or the exception it raises
propogate_properties(ts, default) ==
    IF topo_sort_layers(ts).raised THEN {[tasks |-> ts, raised |-> "Exception"]}
    ELSE {PropagateLoop(ts, Reverse(order), default) : order \in topo_sort(ts)}

-----------------------------------------------------------------------------
(* ProcessedAST.from_raw_ast *)

AtomicTask(step) ==
    [id |-> step.id, priority |-> step.priority,
     deps |-> step.deps.after, deadline |-> step.deadline]

\* result[step.id] = AtomicTask(...) for step in normalized_steps
nodes_of(steps) ==
    LET d == get_tasks_in_dict(steps)
    IN [id \in DOMAIN d |-> AtomicTask(steps[d[id]])]

from_raw_ast(ts, default) ==
    {IF p.raised # "none" THEN [nodes |-> <<>>, raised |-> p.raised]
     ELSE LET normalized == normalize_dependencies(p.tasks)
          IN IF normalized.raised # "none"
             THEN [nodes |-> <<>>, raised |-> normalized.raised]
             ELSE [nodes |-> nodes_of(normalized.steps), raised |-> "none"]
     : p \in propogate_properties(ts, default)}

-----------------------------------------------------------------------------
(* The explored inputs: task lists as a task file can describe them *)

Max(S) == CHOOSE x \in S : \A y \in S : y <= x

\* id lists up to renaming: each id is one seen earlier in the list or the
\* next fresh one, so lists that repeat an id are included
IdLists(n) ==
    {f \in [1..n -> 1..n] :
        \A i \in 1..n : f[i] <= 1 + Max({f[j] : j \in 1..(i - 1)} \cup {0})}

RECURSIVE SubsetsUpTo(_, _)
SubsetsUpTo(S, k) ==
    IF k = 0 THEN {{}}
    ELSE LET P == SubsetsUpTo(S, k - 1) IN P \cup {p \cup {x} : p \in P, x \in S}

SeqsUpTo(S, k) == UNION {[1..l -> S] : l \in 0..k}

RECURSIVE SumLen(_, _)
SumLen(f, n) == IF n = 0 THEN 0 ELSE Len(f[n]) + SumLen(f, n - 1)

\* (kind, subtasks) per task: <<>> stands for a step, <<"goal", list>> for a goal
Shapes(n) ==
    {f \in [1..n -> {<<>>} \cup ({"goal"} \X SeqsUpTo(Refs, MaxSubs))] :
        SumLen([i \in 1..n |-> IF f[i] = <<>> THEN <<>> ELSE f[i][2]], n) <= MaxSubs}

SubtasksOf(shape) == IF shape = <<>> THEN <<>> ELSE shape[2]

\* implicit_deps_by_order: free on a goal with two or more subtasks; on a
\* shorter list range(1, len(subtasks)) is empty and the flag does nothing
ImplicitFlags(n, shapes) ==
    {f \in [1..n -> BOOLEAN] : \A i \in 1..n : f[i] => Len(SubtasksOf(shapes[i])) >= 2}

DepEntries(n) == (1..n) \X {"before", "after"} \X Refs

DeadlineLists(n) ==
    {f \in [1..n -> 0..MaxDdl] : Cardinality({i \in 1..n : f[i] # 0}) <= MaxDeadlines}

\* which combinations are explored: w dependency and subtask entries,
\* k declared deadlines, dup repeated ids
Explored(w, k, dup) ==
    /\ w <= MaxEdges
    /\ (k > 0 \/ dup > 0) => w <= MaxEdges - 1
    /\ ~(k > 0 /\ dup > 0)

MkTask(i, ids, shapes, impl, D, ddl) ==
    [id |-> ids[i],
     kind |-> IF shapes[i] = <<>> THEN "step" ELSE "goal",
     deps |-> [before |-> {e[3] : e \in {x \in D : x[1] = i /\ x[2] = "before"}},
               after |-> {e[3] : e \in {x \in D : x[1] = i /\ x[2] = "after"}}],
     subtasks |-> SubtasksOf(shapes[i]),
     implicit_deps_by_order |-> impl[i],
     deadline |-> IF ddl[i] = 0 THEN NoDeadline ELSE NaiveDt(ddl[i]),
     timezone |-> "none",
     priority |-> 1]

NoResult == [op |-> "none", raised |-> "none", value |-> <<>>]

\* no schedule() call is in progress
NoSchedule == [stage |-> "none"]

\* no REPL is running
NoState == [path |-> "none"]

Start(tasks) ==
    /\ raw = tasks
    /\ ast = tasks
    /\ config = [default_tz |-> "utc"]
    /\ pc = "check_refs"
    /\ error = "none"
    /\ result = NoResult
    /\ state = NoState
    /\ sched = NoSchedule

InitExplored ==
    \E n \in 1..MaxTasks :
      LET AllDeps == SubsetsUpTo(DepEntries(n), MaxDeps)
          AllShapes == Shapes(n)
          AllIds == IdLists(n)
          AllDdl == DeadlineLists(n)
      IN \E D \in AllDeps, shapes \in AllShapes :
           LET w == Cardinality(D) + SumLen([i \in 1..n |-> SubtasksOf(shapes[i])], n)
           IN /\ w <= MaxEdges
              /\ \E ids \in AllIds, ddl \in AllDdl :
                   /\ Explored(w, Cardinality({i \in 1..n : ddl[i] # 0}),
                               n - Cardinality(RangeOf(ids)))
                   /\ \E impl \in ImplicitFlags(n, shapes) :
                        Start([i \in 1..n |-> MkTask(i, ids, shapes, impl, D, ddl)])

\* the task list of test_implicit_deps: 1 task-a, 2 task-b, 3 task-c,
\* 4 goal-a, 5 goal-b
StepTask(id, after) ==
    [id |-> id, kind |-> "step", deps |-> [before |-> {}, after |-> after],
     subtasks |-> <<>>, implicit_deps_by_order |-> FALSE,
     deadline |-> NoDeadline, timezone |-> "none", priority |-> 1]

GoalTask(id, subtasks, implicit) ==
    [id |-> id, kind |-> "goal", deps |-> [before |-> {}, after |-> {}],
     subtasks |-> subtasks, implicit_deps_by_order |-> implicit,
     deadline |-> NoDeadline, timezone |-> "none", priority |-> 1]

test_implicit_deps ==
    <<StepTask(1, {}), StepTask(2, {3}), StepTask(3, {}),
      GoalTask(4, <<5, 1>>, TRUE), GoalTask(5, <<2>>, FALSE)>>

Init == InitExplored \/ Start(test_implicit_deps)

-----------------------------------------------------------------------------
(* TaskAST.check, the model validator run by the constructor *)

CheckRefs ==
    /\ pc = "check_refs"
    /\ IF TaskAST_check_refs(ast) # {}
       THEN pc' = "failed" /\ error' = "undefined_ref"
       ELSE pc' = "check_deadlines" /\ error' = error
    /\ UNCHANGED <<config, raw, ast, result, sched, state>>

CheckDeadlines ==
    /\ pc = "check_deadlines"
    /\ IF TaskAST_check_deadlines(ast)
       THEN pc' = "failed" /\ error' = "deadline_conflict"
       ELSE pc' = "inject_implicit_deps" /\ error' = error
    /\ UNCHANGED <<config, raw, ast, result, sched, state>>

InjectImplicitDeps ==
    /\ pc = "inject_implicit_deps"
    /\ ast' = InjectAllGoals(ast)
    /\ pc' = "check_deps_graph"
    /\ UNCHANGED <<config, raw, error, result, sched, state>>

CheckDepsGraph ==
    /\ pc = "check_deps_graph"
    /\ IF TaskAST_check_deps_graph(ast).raised
       THEN pc' = "failed" /\ error' = "cycle"
       ELSE pc' = "constructed" /\ error' = error
    /\ UNCHANGED <<config, raw, ast, result, sched, state>>

-----------------------------------------------------------------------------
(* The passes a caller runs on a constructed TaskAST.  Each pass mutates a   *)
(* deepcopy of self (self_copy / result_copy); what it leaves in self is     *)
(* given by the self_after_ operators                                        *)

\* normalize_dependencies inverts and expands self_copy = deepcopy(self)
self_after_normalize_dependencies_NoCopy(ts) == _invert_dependencies(ts)

self_after_normalize_dependencies(ts) == ts

\* propogate_properties updates result_copy = deepcopy(self); topo_sort pops
\* from the dict of its own self_copy
self_after_propogate_properties(ts) == ts

\* from_raw_ast calls raw_ast.propogate_properties() and normalizes the copy
\* that call returned
self_after_from_raw_ast(ts) == self_after_propogate_properties(ts)


NormalizeDependencies ==
    /\ pc = "constructed"
    /\ LET r == normalize_dependencies(ast)
       IN result' = [op |-> "normalize_dependencies", raised |-> r.raised,
                     value |-> r.steps]
    /\ ast' = self_after_normalize_dependencies(ast)
    /\ UNCHANGED <<config, raw, pc, error, sched, state>>

PropogateProperties ==
    /\ pc = "constructed"
    /\ \E r \in propogate_properties(ast, config.default_tz) :
          result' = [op |-> "propogate_properties", raised |-> r.raised,
                     value |-> IF r.raised = "none" THEN r.tasks ELSE <<>>]
    /\ ast' = self_after_propogate_properties(ast)
    /\ UNCHANGED <<config, raw, pc, error, sched, state>>

FromRawAst ==
    /\ pc = "constructed"
    /\ \E r \in from_raw_ast(ast, config.default_tz) :
          result' = [op |-> "from_raw_ast", raised |-> r.raised, value |-> r.nodes]
    /\ ast' = self_after_from_raw_ast(ast)
    /\ UNCHANGED <<config, raw, pc, error, sched, state>>

Next ==
    \/ CheckRefs
    \/ CheckDeadlines
    \/ InjectImplicitDeps
    \/ CheckDepsGraph
    \/ NormalizeDependencies
    \/ PropogateProperties
    \/ FromRawAst

Spec == Init /\ [][Next]_vars

-----------------------------------------------------------------------------
(* Propagation explored on its own: task lists that also declare time      *)
(* zones and priorities, and a second propogate_properties run on the      *)
(* TaskAST the first one returned                                          *)

MaxPropEdges == 2   \* deps + subtasks entries of one such input
MaxPriority == 2    \* declared priorities are 1..MaxPriority
MaxZoned == 1       \* tasks of one such input that declare a timezone

TimezoneLists(n) ==
    {f \in [1..n -> {"none"} \cup TzNames] :
        Cardinality({i \in 1..n : f[i] # "none"}) <= MaxZoned}

PriorityLists(n) == [1..n -> 1..MaxPriority]

\* which of these are explored: priorities vary on task lists without
\* deadlines and timezones, deadlines and timezones on lists of priority 1
\* with unique ids; d declared deps entries only where neither a deadline
\* nor a repeated id is present
ExploredProps(d, k, zoned, prio, dup) ==
    /\ (k > 0 \/ zoned > 0) => (prio = 0 /\ dup = 0)
    /\ zoned > 0 => k > 0
    /\ (k > 0 \/ dup > 0) => d = 0

WithProps(t, tz, priority) == [t EXCEPT !.timezone = tz, !.priority = priority]

StartPropagate(tasks, default) ==
    /\ raw = tasks
    /\ ast = tasks
    /\ config = [default_tz |-> default]
    /\ pc = "check_refs"
    /\ error = "none"
    /\ result = NoResult
    /\ state = NoState
    /\ sched = NoSchedule

InitPropagateExplored ==
    \E n \in 1..MaxTasks :
      LET AllDeps == SubsetsUpTo(DepEntries(n), 1)
          AllShapes == Shapes(n)
          AllIds == IdLists(n)
          Count(f, plain) == Cardinality({i \in 1..n : f[i] # plain})
          AllProps == {p \in DeadlineLists(n) \X TimezoneLists(n) \X PriorityLists(n) :
                          ExploredProps(0, Count(p[1], 0), Count(p[2], "none"),
                                        Count(p[3], 1), 0)}
      IN \E D \in AllDeps, shapes \in AllShapes :
           /\ Cardinality(D) + SumLen([i \in 1..n |-> SubtasksOf(shapes[i])], n)
                 <= MaxPropEdges
           /\ \E ids \in AllIds, p \in AllProps :
                /\ ExploredProps(Cardinality(D), Count(p[1], 0), Count(p[2], "none"),
                                 Count(p[3], 1), n - Cardinality(RangeOf(ids)))
                /\ \E default \in TzNames :
                     StartPropagate(
                         [i \in 1..n |->
                             WithProps(MkTask(i, ids, shapes, [j \in 1..n |-> FALSE],
                                              D, p[1]), p[2][i], p[3][i])],
                         default)

\* a step listed by a goal of priority 2 and by a sub-goal of that goal
shared_step ==
    <<StepTask(1, {}), GoalTask(2, <<1>>, FALSE),
      WithProps(GoalTask(3, <<1, 2>>, FALSE), "none", 2)>>

InitPropagate == InitPropagateExplored \/ StartPropagate(shared_step, "utc")

\* a second propogate_properties call, on the TaskAST the first returned
PropogateAgain ==
    /\ pc = "constructed"
    /\ result.op = "propogate_properties"
    /\ result.raised = "none"
    /\ \E r \in propogate_properties(result.value, config.default_tz) :
          result' = [op |-> "propogate_properties_twice", raised |-> r.raised,
                     value |-> [first |-> result.value,
                                second |-> IF r.raised = "none" THEN r.tasks
                                           ELSE <<>>]]
    /\ UNCHANGED <<config, raw, pc, ast, error, sched, state>>

NextPropagate ==
    \/ CheckRefs
    \/ CheckDeadlines
    \/ InjectImplicitDeps
    \/ CheckDepsGraph
    \/ NormalizeDependencies
    \/ PropogateProperties
    \/ FromRawAst
    \/ PropogateAgain

SpecPropagate == InitPropagate /\ [][NextPropagate]_vars

-----------------------------------------------------------------------------
(* The optimizer: schedule(ast, start, end) of optimizer/models.py.        *)
(*                                                                         *)
(* Time is counted in ticks from the midnight before schedule_start;       *)
(* DURATION_UNIT, the slot, is SlotTicks ticks, so that a datetime can fall *)
(* between two slot marks.  A ProcessedAST is [nodes, bg]: nodes maps an   *)
(* id to an AtomicTask [status, duration, deps, deadline, priority,        *)
(* confidence] (duration in slots, deadline a tick or NoTick); bg is the   *)
(* list of background sessions and calendar events, each [begin, end] in   *)
(* ticks.                                                                  *)

SlotTicks == 2      \* ticks of one DURATION_UNIT
YSCALE == 100
GapPercent == 2     \* relative_gap_limit = 0.02

NoTick == -1000

FloorDiv(a, b) == IF a >= 0 THEN a \div b ELSE -((-a + b - 1) \div b)

MinOf(S) == CHOOSE x \in S : \A y \in S : x <= y

\* (dt - schedule_start) // DURATION_UNIT
datetime_to_slot(dt, schedule_start) == FloorDiv(dt - schedule_start, SlotTicks)

get_total_slots(schedule_start, schedule_end) ==
    datetime_to_slot(schedule_end, schedule_start)

\* the snapping without the microsecond taken off the slot added
snap_start_WholeSlotAdded(schedule_start) ==
    FloorDiv(schedule_start + SlotTicks, SlotTicks) * SlotTicks

\* schedule_start brought to the next slot mark:
\* ((start - start_of_day) + (DURATION_UNIT - 1us)) // DURATION_UNIT * DURATION_UNIT
snap_start(schedule_start) ==
    FloorDiv(schedule_start + (SlotTicks - 1), SlotTicks) * SlotTicks

\* the ids with status todo
get_nodes(nodes) == {id \in DOMAIN nodes : nodes[id].status = "todo"}

\* Event.intersects of two blocks: one begins or ends within the other
Intersects(a, b) ==
    \/ b.begin <= a.begin /\ a.begin <= b.end
    \/ b.begin <= a.end /\ a.end <= b.end
    \/ a.begin <= b.begin /\ b.begin <= a.end
    \/ a.begin <= b.end /\ b.end <= a.end

\* a join that ends where the later block ends
Join_EndOfLater(a, b) ==
    [begin |-> IF a.begin <= b.begin THEN a.begin ELSE b.begin,
     end |-> b.end]

\* Event.join: the span of both
Join(a, b) ==
    [begin |-> IF a.begin <= b.begin THEN a.begin ELSE b.begin,
     end |-> IF a.end >= b.end THEN a.end ELSE b.end]

\* collected.sort(key=lambda x: x.begin); the sort is stable
RECURSIVE SortByBegin(_)
SortByBegin(blocks) ==
    IF blocks = <<>> THEN <<>>
    ELSE LET i == MinOf({j \in DOMAIN blocks :
                            \A k \in DOMAIN blocks :
                                /\ blocks[j].begin <= blocks[k].begin
                                /\ blocks[j].begin = blocks[k].begin => j <= k})
         IN <<blocks[i]>> \o SortByBegin(
                [k \in 1..(Len(blocks) - 1) |->
                    IF k < i THEN blocks[k] ELSE blocks[k + 1]])

NoneBlock == [begin |-> NoTick, end |-> NoTick]

RECURSIVE MergeFrom(_, _, _, _)
\* the merge loop of get_background_blocks from position i on
MergeFrom(collected, i, prev_block, final) ==
    IF i > Len(collected) THEN Append(final, prev_block)
    ELSE IF prev_block = NoneBlock
         THEN MergeFrom(collected, i + 1, collected[i], final)
         ELSE IF Intersects(prev_block, collected[i])
              THEN MergeFrom(collected, i + 1, Join(prev_block, collected[i]), final)
              ELSE MergeFrom(collected, i + 1, collected[i], Append(final, prev_block))

\* the merged blocks; with nothing collected the list is [None]
get_background_blocks(bg) == MergeFrom(SortByBegin(bg), 1, NoneBlock, <<>>)

\* the fixed-size intervals of the blocks: block.duration is truthy when it
\* is not zero; start and size are floored to slots
bg_blocks(bg, schedule_start) ==
    LET blocks == get_background_blocks(bg)
        kept == SelectSeq(blocks, LAMBDA b : b.end - b.begin # 0)
    IN [i \in DOMAIN kept |->
          [start |-> datetime_to_slot(kept[i].begin, schedule_start),
           size |-> FloorDiv(kept[i].end - kept[i].begin, SlotTicks)]]

\* BasicModel.from_processed_ast: the exception it raises or the model built
from_processed_ast(past, schedule_start, schedule_end) ==
    LET start == snap_start(schedule_start)
        total_slots == get_total_slots(start, schedule_end)
        todo == get_nodes(past.nodes)
    IN IF total_slots < 0 THEN [raised |-> "RuntimeError"]
       ELSE IF \E i \in DOMAIN get_background_blocks(past.bg) :
                  get_background_blocks(past.bg)[i] = NoneBlock
            THEN [raised |-> "AttributeError"]
       ELSE IF \E id \in todo : ~(past.nodes[id].deps \subseteq todo)
            THEN [raised |-> "KeyError"]
       ELSE [raised |-> "none",
             schedule_start |-> start,
             total_slots |-> total_slots,
             nodes |-> [id \in todo |-> past.nodes[id]],
             bg_blocks |-> bg_blocks(past.bg, start)]

(* The constraint model.  An assignment a gives every interval variable    *)
(* its start and its len; end is start + len (new_interval_var).           *)

MaxOf(S) == CHOOSE x \in S : \A y \in S : x >= y

RECURSIVE SumOver(_, _)
SumOver(f, S) ==
    IF S = {} THEN 0
    ELSE LET x == CHOOSE y \in S : TRUE IN f[x] + SumOver(f, S \ {x})

end_expr(a, id) == a[id].start + a[id].len

\* the variables without the domain of end_time
Assignments_EndUnbounded(m) ==
    LET ids == DOMAIN m.nodes
        longest == IF ids = {} THEN 0 ELSE MaxOf({2 * m.nodes[id].duration : id \in ids})
    IN {a \in [ids -> [start : 0..m.total_slots, len : 0..longest]] :
          \A id \in ids : a[id].len <= 2 * m.nodes[id].duration}

\* start, end in [0, total_slots]; len in [0, 2 * duration]
Assignments(m) ==
    LET ids == DOMAIN m.nodes
        longest == IF ids = {} THEN 0 ELSE MaxOf({2 * m.nodes[id].duration : id \in ids})
    IN {a \in [ids -> [start : 0..m.total_slots, len : 0..longest]] :
          \A id \in ids : /\ a[id].len <= 2 * m.nodes[id].duration
                          /\ end_expr(a, id) <= m.total_slots}

\* two intervals of add_no_overlap: one ends before the other starts
Disjoint(s1, e1, s2, e2) == e1 <= s2 \/ e2 <= s1

no_overlap_Dropped(a, m) == TRUE

\* model.add_no_overlap(chain(interval_vars.values(), bg_blocks))
no_overlap(a, m) ==
    /\ \A i, j \in DOMAIN m.nodes :
          i # j => Disjoint(a[i].start, end_expr(a, i), a[j].start, end_expr(a, j))
    /\ \A i \in DOMAIN m.nodes : \A b \in DOMAIN m.bg_blocks :
          Disjoint(a[i].start, end_expr(a, i),
                   m.bg_blocks[b].start, m.bg_blocks[b].start + m.bg_blocks[b].size)
    /\ \A b, c \in DOMAIN m.bg_blocks :
          b # c => Disjoint(m.bg_blocks[b].start, m.bg_blocks[b].start + m.bg_blocks[b].size,
                            m.bg_blocks[c].start, m.bg_blocks[c].start + m.bg_blocks[c].size)

precedence_Dropped(a, m) == TRUE

\* interval_vars[prereq].end_expr() <= interval_vars[id].start_expr()
precedence(a, m) ==
    \A id \in DOMAIN m.nodes : \A prereq \in m.nodes[id].deps :
        end_expr(a, prereq) <= a[id].start

\* the assignments of the BasicModel
Feasible(m) == {a \in Assignments(m) : no_overlap(a, m) /\ precedence(a, m)}

\* get_converted_ddl of one node
converted_ddl(m, id) == datetime_to_slot(m.nodes[id].deadline, m.schedule_start)

\* available_times[id]: the case of before_ddl, clipped, after_ddl that holds
available_time(a, m, id) ==
    IF m.nodes[id].deadline = NoTick THEN a[id].len
    ELSE IF end_expr(a, id) <= converted_ddl(m, id) THEN a[id].len
    ELSE IF a[id].start <= converted_ddl(m, id) THEN converted_ddl(m, id) - a[id].start
    ELSE 0

\* the constraints without add_exactly_one
deadline_indicators_NotExactlyOne(a, m, id) ==
    LET k == converted_ddl(m, id)
    IN {v \in [before_ddl : BOOLEAN, clipped : BOOLEAN, after_ddl : BOOLEAN,
               available_time : 0..m.total_slots] :
          /\ v.before_ddl => end_expr(a, id) <= k
          /\ v.after_ddl => k < a[id].start
          /\ v.clipped => a[id].start <= k /\ k < end_expr(a, id)
          /\ v.before_ddl => v.available_time = a[id].len
          /\ v.clipped => v.available_time = k - a[id].start
          /\ v.after_ddl => v.available_time = 0}

\* the values of before_ddl, clipped, after_ddl and available_times[id] that
\* the constraints of a node with a deadline admit for the interval in a:
\* add_exactly_one and the six linear constraints with only_enforce_if
deadline_indicators(a, m, id) ==
    LET k == converted_ddl(m, id)
    IN {v \in [before_ddl : BOOLEAN, clipped : BOOLEAN, after_ddl : BOOLEAN,
               available_time : 0..m.total_slots] :
          /\ Cardinality({x \in {"before_ddl", "clipped", "after_ddl"} : v[x]}) = 1
          /\ v.before_ddl => end_expr(a, id) <= k
          /\ v.after_ddl => k < a[id].start
          /\ v.clipped => a[id].start <= k /\ k < end_expr(a, id)
          /\ v.before_ddl => v.available_time = a[id].len
          /\ v.clipped => v.available_time = k - a[id].start
          /\ v.after_ddl => v.available_time = 0}

\* the values of available_times[id] the model admits for the interval in a
available_times(a, m, id) ==
    IF m.nodes[id].deadline = NoTick
    THEN {x \in 0..m.total_slots : x = a[id].len}
    ELSE {v.available_time : v \in deadline_indicators(a, m, id)}

sigma_X(node) == node.duration \div (node.confidence + 3)

\* piecewise_linear_objective with sigma_X = 0: the anchors of the step
\* function at x = 0, 1, ..., total_slots, times priority and yscale
f_objective(node, x) == IF x < node.duration THEN 0 ELSE node.priority * YSCALE

\* the same integrated from 0 to x
int_f_objective(node, x) ==
    IF x < node.duration THEN 0 ELSE (x - node.duration) * node.priority * YSCALE

\* PiecewiseLinearConstraint(model, x, f, upper_bound=True): y lies below f(x)
PiecewiseLinearConstraint(y, fx) == 0 <= y /\ y <= fx

\* the largest utilities[id].y and cuf_int[id].y under assignment a
utility_max(a, m) ==
    [id \in DOMAIN m.nodes |-> f_objective(m.nodes[id], available_time(a, m, id))]

cuf_int_max(a, m) ==
    [id \in DOMAIN m.nodes |-> int_f_objective(m.nodes[id], available_time(a, m, id))]

\* cuf_prod[id] = utilities[id].y * (total_slots - end), summed
cuf_prod_sum(a, m, U) ==
    SumOver([id \in DOMAIN m.nodes |-> U[id] * (m.total_slots - end_expr(a, id))],
            DOMAIN m.nodes)

UtilitySum(a, m) == SumOver(utility_max(a, m), DOMAIN m.nodes)

CufIntSum(a, m) == SumOver(cuf_int_max(a, m), DOMAIN m.nodes)

LenSum(a, m) == SumOver([id \in DOMAIN m.nodes |-> a[id].len], DOMAIN m.nodes)

\* the utility vectors under a whose sum reaches the floor
Utilities(a, m, floor) ==
    LET ids == DOMAIN m.nodes
        top == utility_max(a, m)
        slack == UtilitySum(a, m) - floor
    IN IF slack < 0 THEN {}
       ELSE {[id \in ids |-> top[id] - d[id]] :
                d \in {e \in [ids -> 0..slack] :
                          /\ \A id \in ids : PiecewiseLinearConstraint(top[id] - e[id], top[id])
                          /\ SumOver(e, ids) <= slack}}

\* solver.parameters.relative_gap_limit: the search may stop at objective v
\* when the bound best is within GapPercent per cent of it
WithinGap(v, best) ==
    LET diff == IF v >= best THEN v - best ELSE best - v
        size == IF v >= 0 THEN v ELSE -v
    IN 100 * diff <= GapPercent * (IF size >= 1 THEN size ELSE 1)

(* The three solves.  A solve that ends within max_time_in_seconds returns *)
(* any solution whose objective is within the gap limit of the optimum, or *)
(* raises "No solution found." when the model has none.                    *)

\* the sums of utilities the first solve can return
UtilityOptima(m) ==
    LET best == MaxOf({UtilitySum(a, m) : a \in Feasible(m)})
    IN {v \in 0..best : WithinGap(v, best)}

\* <<sum of utilities, sum of cuf>> of the solutions the second solve can return
CufOptima(m, utility_floor) ==
    LET feas == {a \in Feasible(m) : UtilitySum(a, m) >= utility_floor}
        top(a) == cuf_prod_sum(a, m, utility_max(a, m)) + CufIntSum(a, m)
        best == MaxOf({top(a) : a \in feas})
    IN UNION {UNION {{<<SumOver(U, DOMAIN m.nodes), v>> :
                        v \in {w \in cuf_prod_sum(a, m, U)
                                       ..(cuf_prod_sum(a, m, U) + CufIntSum(a, m)) :
                                  WithinGap(w, best)}} :
                     U \in Utilities(a, m, utility_floor)} :
              a \in feas}

\* the solutions <<a, U>> that meet both floors
AboveFloors(m, utility_floor, cuf_floor) ==
    UNION {{<<a, U>> : U \in {V \in Utilities(a, m, utility_floor) :
                                 cuf_prod_sum(a, m, V) + CufIntSum(a, m) >= cuf_floor}} :
           a \in Feasible(m)}

\* the solutions the third solve can return
LenOptima(m, utility_floor, cuf_floor) ==
    LET sols == AboveFloors(m, utility_floor, cuf_floor)
        best == MinOf({LenSum(s[1], m) : s \in sols})
    IN {s \in sols : WithinGap(LenSum(s[1], m), best)}

from_slot_to_datetime(n, schedule_start) == schedule_start + n * SlotTicks

\* TotalUtilityModel.to_schedule of the solution <<a, U>>
to_schedule(m, s) ==
    [objective |-> LenSum(s[1], m),
     schedule |-> [id \in DOMAIN m.nodes |->
                     [start |-> from_slot_to_datetime(s[1][id].start, m.schedule_start),
                      end |-> from_slot_to_datetime(end_expr(s[1], id), m.schedule_start),
                      length |-> s[1][id].len,
                      utility |-> s[2][id],
                      priority |-> m.nodes[id].priority]],
     schedule_start |-> m.schedule_start]

(* schedule(ast, start, end) explored on its own: the calls of its chain   *)
(* one after the other, on small ProcessedASTs.                            *)

MaxNodes == 2       \* nodes of a drawn ProcessedAST
MaxDuration == 2    \* durations are 1..MaxDuration slots
MaxBegin == 4       \* background blocks begin at ticks -1..MaxBegin
MaxBlockLen == 3    \* and last 0..MaxBlockLen ticks
LongDuration == 50  \* the duration of the one long task

Node(status, duration, deps, deadline, priority, confidence) ==
    [status |-> status, duration |-> duration, deps |-> deps,
     deadline |-> deadline, priority |-> priority, confidence |-> confidence]

Block(begin, end) == [begin |-> begin, end |-> end]

NodeChoices ==
    [status : {"todo", "done"}, duration : 1..MaxDuration,
     deadline : {NoTick, 3}, priority : 1..MaxPriority]

NodeOf(c, deps) == Node(c.status, c.duration, deps, c.deadline, c.priority, 1)

\* one node, or two of which b may come after a
NodeMaps(choices) ==
    {("a" :> NodeOf(c, {})) : c \in choices}
    \cup {("a" :> NodeOf(c[1], {})) @@ ("b" :> NodeOf(c[2], d)) :
             c \in choices \X choices, d \in {{}, {"a"}}}

PlainChoices == {c \in NodeChoices : c.status = "todo" /\ c.deadline = NoTick /\ c.priority = 1}

BlockLists ==
    {<<>>}
    \cup {<<Block(b, b + l)>> : b \in (-1)..MaxBegin, l \in 0..MaxBlockLen}
    \cup {<<Block(b[1], b[1] + l[1]), Block(b[2], b[2] + l[2])>> :
             b \in {0, 2, 3} \X {0, 2, 3}, l \in (1..2) \X (1..2)}
    \cup {<<Block(0, 4), Block(1, 2), Block(3, 5)>>,
          <<Block(3, 5), Block(0, 1), Block(1, 3)>>,
          <<Block(4, 5), Block(2, 3), Block(0, 1)>>,
          <<Block(2, 2), Block(0, 2), Block(3, 4)>>}

\* test_prereq_enforcement: A..F, each before the next, one slot each
test_prereq_enforcement ==
    [past |-> [nodes |-> [id \in {"a", "b", "c", "d", "e", "f"} |->
                            Node("todo", 1,
                                 CASE id = "a" -> {} [] id = "b" -> {"a"}
                                   [] id = "c" -> {"b"} [] id = "d" -> {"c"}
                                   [] id = "e" -> {"d"} [] id = "f" -> {"e"},
                                 NoTick, 1, IF id = "f" THEN 1 ELSE 4)],
               bg |-> <<>>],
     schedule_start |-> 0, schedule_end |-> 3 * SlotTicks]

\* test_cuf_model: A one slot, B four slots, C one slot at priority 2
test_cuf_model ==
    [past |-> [nodes |-> [id \in {"a", "b", "c"} |->
                            Node("todo", IF id = "b" THEN 4 ELSE 1, {}, NoTick,
                                 IF id = "c" THEN 2 ELSE 1, 1)],
               bg |-> <<>>],
     schedule_start |-> 0, schedule_end |-> 20 * SlotTicks]

\* one long task in a window two slots longer, a block after the window
long_task ==
    [past |-> [nodes |-> ("a" :> Node("todo", LongDuration, {}, NoTick, 1, LongDuration - 2)),
               bg |-> <<Block(4 * LongDuration * SlotTicks, 4 * LongDuration * SlotTicks + SlotTicks)>>],
     schedule_start |-> 0, schedule_end |-> (LongDuration + 2) * SlotTicks]

\* one step of three slots with its deadline two slots into a window of six,
\* a block after the window
deadline_step ==
    [past |-> [nodes |-> ("a" :> Node("todo", 3, {}, 2 * SlotTicks, 1, 1)),
               bg |-> <<Block(8 * SlotTicks, 9 * SlotTicks)>>],
     schedule_start |-> 0, schedule_end |-> 6 * SlotTicks]

\* one step in a window of two slots, during a block that began a slot
\* before the window and ends two slots after it
block_over_window ==
    [past |-> [nodes |-> ("a" :> Node("todo", 1, {}, NoTick, 1, 1)),
               bg |-> <<Block(0 - SlotTicks, 4 * SlotTicks)>>],
     schedule_start |-> 0, schedule_end |-> 2 * SlotTicks]

ScheduleInputs ==
    {[past |-> [nodes |-> n, bg |-> bg], schedule_start |-> w[1], schedule_end |-> w[2]] :
        n \in NodeMaps(NodeChoices),
        bg \in {<<Block(4, 6)>>},
        w \in {<<0, 6>>, <<0, 2>>}}
    \cup
    {[past |-> [nodes |-> n, bg |-> bg], schedule_start |-> w[1], schedule_end |-> w[2]] :
        n \in NodeMaps(PlainChoices),
        bg \in BlockLists,
        w \in {<<0, 6>>, <<1, 6>>, <<0, 2>>, <<1, 1>>, <<1, 2>>}}
    \cup {test_prereq_enforcement, test_cuf_model, long_task, deadline_step,
          block_over_window}

NoModel == [raised |-> "none"]

InitSchedule ==
    /\ raw = <<>>
    /\ ast = <<>>
    /\ config = [default_tz |-> "utc"]
    /\ pc = "schedule"
    /\ error = "none"
    /\ result = NoResult
    /\ state = NoState
    /\ \E i \in ScheduleInputs :
          sched = [stage |-> "from_processed_ast", input |-> i, raised |-> "none",
                   model |-> NoModel, utility_floor |-> 0, cuf_floor |-> 0,
                   stage2 |-> <<>>, schedule |-> <<>>]

\* BasicModel.from_processed_ast(ast, start, end)
FromProcessedAst ==
    /\ sched.stage = "from_processed_ast"
    /\ LET m == from_processed_ast(sched.input.past, sched.input.schedule_start,
                                   sched.input.schedule_end)
       IN sched' = IF m.raised # "none"
                   THEN [sched EXCEPT !.stage = "raised", !.raised = m.raised]
                   ELSE [sched EXCEPT !.stage = "to_total_utility_model", !.model = m]
    /\ UNCHANGED <<config, raw, pc, ast, error, result, state>>

\* .to_total_utility_model(): the utilities and the objective, nothing solved
ToTotalUtilityModel ==
    /\ sched.stage = "to_total_utility_model"
    /\ sched' = [sched EXCEPT !.stage = "to_cuf_model"]
    /\ UNCHANGED <<config, raw, pc, ast, error, result, state>>

\* .to_cuf_model(): the first solve, the utility floor, then maximize cuf
ToCufModel ==
    /\ sched.stage = "to_cuf_model"
    /\ IF Feasible(sched.model) = {}
       THEN sched' = [sched EXCEPT !.stage = "raised", !.raised = "No solution found."]
       ELSE \E optimal \in UtilityOptima(sched.model) :
              sched' = [sched EXCEPT !.stage = "to_interval_model",
                                     !.utility_floor = optimal]
    /\ UNCHANGED <<config, raw, pc, ast, error, result, state>>

\* .to_interval_model(): the second solve, the cuf floor, then minimize len
ToIntervalModel ==
    /\ sched.stage = "to_interval_model"
    /\ \E sol \in CufOptima(sched.model, sched.utility_floor) :
          sched' = [sched EXCEPT !.stage = "to_schedule",
                                 !.cuf_floor = sol[2],
                                 !.stage2 = [utility |-> sol[1], cuf |-> sol[2]]]
    /\ UNCHANGED <<config, raw, pc, ast, error, result, state>>

\* .to_schedule(): the third solve and the Schedule of its solution
ToSchedule ==
    /\ sched.stage = "to_schedule"
    /\ \E s \in LenOptima(sched.model, sched.utility_floor, sched.cuf_floor) :
          sched' = [sched EXCEPT !.stage = "returned",
                                 !.schedule = to_schedule(sched.model, s)]
    /\ UNCHANGED <<config, raw, pc, ast, error, result, state>>

NextSchedule ==
    \/ FromProcessedAst
    \/ ToTotalUtilityModel
    \/ ToCufModel
    \/ ToIntervalModel
    \/ ToSchedule

SpecSchedule == InitSchedule /\ [][NextSchedule]_vars

-----------------------------------------------------------------------------
(* The statuses of the three solves.  The solver is outside the program:   *)
(* what it reports for a model is drawn here, the solutions themselves are *)
(* left out.  A model is invalid when a variable has an empty domain, as   *)
(* cuf_prod and cuf have for a negative priority; it has no solution when  *)
(* no assignment satisfies its constraints; and the time limit can end any *)
(* search, with a solution (FEASIBLE) or without one (UNKNOWN).            *)

\* new_int_var(0, node.priority * total_slots * YSCALE, ...) has a value
ValidModel(m) == \A id \in DOMAIN m.nodes : m.nodes[id].priority * m.total_slots * YSCALE >= 0

\* the statuses solver.solve(self.model) can report
SolveStatuses(m) ==
    IF ~ValidModel(m) THEN {"MODEL_INVALID"}
    ELSE IF Feasible(m) = {} THEN {"INFEASIBLE", "UNKNOWN"}
    ELSE {"OPTIMAL", "FEASIBLE", "UNKNOWN"}

\* BasicModel.solve after solver.solve: the match on the status; a status
\* without a case leaves the match and the solver is returned
solve(status) ==
    CASE status \in {"OPTIMAL", "FEASIBLE"} -> "returned"
      [] status = "INFEASIBLE" -> "No solution found."
      [] status = "UNKNOWN" -> "Limit reached"
      [] OTHER -> "returned"

\* solver.value(v) of a solver that holds no solution: the library raises
\* or hands out whatever it finds
ValueReads(status) ==
    IF status \in {"OPTIMAL", "FEASIBLE"} THEN {"values"} ELSE {"raised", "junk"}

\* the priorities of a ProcessedAST are any integers
SignedChoices ==
    [status : {"todo"}, duration : {1}, deadline : {NoTick}, priority : {-1, 1}]

SolveInputs ==
    {[past |-> [nodes |-> n, bg |-> bg], schedule_start |-> w[1], schedule_end |-> w[2]] :
        n \in NodeMaps(SignedChoices),
        bg \in {<<Block(b, b + l)>> : b \in {-1, 4}, l \in {1, 3, 8}},
        w \in {<<0, 6>>, <<0, 2>>}}

InitSolve ==
    /\ raw = <<>>
    /\ ast = <<>>
    /\ config = [default_tz |-> "utc"]
    /\ pc = "schedule"
    /\ error = "none"
    /\ result = NoResult
    /\ state = NoState
    /\ \E i \in SolveInputs :
          sched = [stage |-> "to_cuf_model",
                   model |-> from_processed_ast(i.past, i.schedule_start, i.schedule_end),
                   statuses |-> <<>>, reads |-> <<>>, raised |-> "none"]

\* one solve of the chain, the reads of its solution, and the stage the
\* chain is in afterwards
SolveAndRead(next) ==
    \E status \in SolveStatuses(sched.model) :
       IF solve(status) # "returned"
       THEN sched' = [sched EXCEPT !.stage = "raised", !.raised = solve(status),
                                   !.statuses = Append(@, status)]
       ELSE \E read \in ValueReads(status) :
              sched' = [sched EXCEPT
                          !.stage = IF read = "raised" THEN "raised" ELSE next,
                          !.raised = IF read = "raised" THEN "library error" ELSE "none",
                          !.statuses = Append(@, status),
                          !.reads = Append(@, read)]

\* TotalUtilityModel.set_objective_constraint: solve, add_hints
SolveTotalUtility ==
    /\ sched.stage = "to_cuf_model"
    /\ SolveAndRead("to_interval_model")
    /\ UNCHANGED <<config, raw, pc, ast, error, result, state>>

\* CUFModel.set_objective_constraint: solve, add_hints
SolveCuf ==
    /\ sched.stage = "to_interval_model"
    /\ SolveAndRead("to_schedule")
    /\ UNCHANGED <<config, raw, pc, ast, error, result, state>>

\* TotalUtilityModel.to_schedule: solve, then the Schedule from the values
SolveIntervalLen ==
    /\ sched.stage = "to_schedule"
    /\ SolveAndRead("returned")
    /\ UNCHANGED <<config, raw, pc, ast, error, result, state>>

NextSolve ==
    \/ SolveTotalUtility
    \/ SolveCuf
    \/ SolveIntervalLen

SpecSolve == InitSolve /\ [][NextSolve]_vars

-----------------------------------------------------------------------------
(* The REPL's AppState (cmd/types.py): import_tasks reads the task file    *)
(* again and fetches the background calendars again, handle_schedule       *)
(* computes the window from the clock and looks the Schedule up in the     *)
(* cache.  The task file, the calendar behind the URL and the clock change *)
(* between two commands.                                                   *)

HourTicks == 2      \* ticks of the clock in an hour
DayTicks == 48      \* and in a day
MaxNow == 1         \* the clock runs over the ticks 0..MaxNow

\* the texts the task file holds: the tasks it declares and a comment
Texts ==
    {[tasks |-> 1, note |-> 0], [tasks |-> 1, note |-> 1], [tasks |-> 2, note |-> 0]}

\* what the URL of the one background calendar serves
Calendars == {"c1", "c2"}

NoText == [tasks |-> 0, note |-> 0]

NoProcessed == [nodes |-> 0, bg |-> "none"]

NoReplSchedule == [of |-> NoProcessed, schedule_start |-> 0, schedule_end |-> 0]

\* _import_tasks: the text and the TaskAST validated from it
_import_tasks(text) == [src |-> text, ast |-> text.tasks]

\* ProcessedAST.from_raw_ast: the nodes from the TaskAST, bg from
\* x.get_calendar(), which downloads the calendar
processed_from_raw_ast(raw_ast, calendar) == [nodes |-> raw_ast, bg |-> calendar]

\* schedule(self.processed, start, end): the Schedule, kept as what it was
\* computed from
schedule(processed, start, end) ==
    [of |-> processed, schedule_start |-> start, schedule_end |-> end]

StartStrs == {"next_day", "next_hour", "soon"}

EndStrs == {"1h", "later"}

\* pytimeparse.parse: the seconds of a duration, None (0 here) otherwise
pytimeparse_parse(str) == IF str = "1h" THEN HourTicks ELSE 0

\* now.shift(days=+1).floor("day"), now.shift(hours=+1).floor("hour")
next_day(now) == FloorDiv(now + DayTicks, DayTicks) * DayTicks

next_hour(now) == FloorDiv(now + HourTicks, HourTicks) * HourTicks

\* the cache: a set of entries [key, value]
CacheKeys(cache) == {c.key : c \in cache}

CacheGet(cache, key) == (CHOOSE c \in cache : c.key = key).value

InitRepl ==
    /\ raw = <<>>
    /\ ast = <<>>
    /\ config = [default_tz |-> "utc"]
    /\ pc = "repl"
    /\ error = "none"
    /\ result = NoResult
    /\ sched = NoSchedule
    /\ \E text \in Texts, calendar \in Calendars :
          state = [path |-> "none", src |-> NoText, ast |-> 0,
                   processed |-> NoProcessed, schedule |-> NoReplSchedule,
                   cache |-> {},
                   file |-> text, calendar |-> calendar, now |-> 0,
                   served |-> "none", raised |-> "none"]

\* AppState.import_tasks(path)
ImportTasks ==
    /\ pc = "repl"
    /\ \E path \in {"none", "tasks.yaml"} :
          LET merged == IF path # "none" THEN path ELSE state.path
              new == _import_tasks(state.file)
              new_processed == processed_from_raw_ast(new.ast, state.calendar)
          IN state' =
                IF merged = "none"
                THEN [state EXCEPT !.raised = "RuntimeError", !.served = "none"]
                ELSE IF new_processed = state.processed
                THEN [state EXCEPT !.path = merged, !.raised = "none",
                                   !.served = "none"]
                ELSE [state EXCEPT !.path = merged, !.src = new.src,
                                   !.ast = new.ast, !.processed = new_processed,
                                   !.schedule = NoReplSchedule,
                                   !.raised = "none", !.served = "none"]
    /\ UNCHANGED <<config, raw, pc, ast, error, result, sched>>

\* AppState.handle_schedule(start_str, end_str)
HandleSchedule ==
    /\ pc = "repl"
    /\ \E start_str \in StartStrs, end_str \in EndStrs :
          LET start_delta == pytimeparse_parse(start_str)
              start == CASE start_str = "next_day" -> next_day(state.now)
                         [] start_str = "next_hour" -> next_hour(state.now)
                         [] OTHER -> state.now + start_delta
              end_delta == pytimeparse_parse(end_str)
              end == start + end_delta
              key == <<state.src, start, end>>
          IN state' =
                IF state.src = NoText \/ state.processed = NoProcessed
                THEN [state EXCEPT !.raised = "RuntimeError", !.served = "none"]
                ELSE IF start_str \notin {"next_day", "next_hour"} /\ start_delta = 0
                THEN [state EXCEPT !.raised = "ValueError", !.served = "none"]
                ELSE IF end_delta = 0
                THEN [state EXCEPT !.raised = "ValueError", !.served = "none"]
                ELSE IF key \in CacheKeys(state.cache)
                THEN [state EXCEPT !.schedule = CacheGet(state.cache, key),
                                   !.raised = "none", !.served = "cache"]
                ELSE LET computed == schedule(state.processed, start, end)
                     IN [state EXCEPT !.schedule = computed,
                                      !.cache = @ \cup {[key |-> key, value |-> computed]},
                                      !.raised = "none", !.served = "computed"]
    /\ UNCHANGED <<config, raw, pc, ast, error, result, sched>>

\* the task file is edited
EditFile ==
    /\ pc = "repl"
    /\ \E text \in Texts \ {state.file} : state' = [state EXCEPT !.file = text]
    /\ UNCHANGED <<config, raw, pc, ast, error, result, sched>>

\* the calendar behind the URL gets or loses an event
CalendarChanges ==
    /\ pc = "repl"
    /\ \E calendar \in Calendars \ {state.calendar} :
          state' = [state EXCEPT !.calendar = calendar]
    /\ UNCHANGED <<config, raw, pc, ast, error, result, sched>>

\* time passes
Tick ==
    /\ pc = "repl"
    /\ state.now < MaxNow
    /\ state' = [state EXCEPT !.now = @ + 1]
    /\ UNCHANGED <<config, raw, pc, ast, error, result, sched>>

NextRepl ==
    \/ ImportTasks
    \/ HandleSchedule
    \/ EditFile
    \/ CalendarChanges
    \/ Tick

SpecRepl == InitRepl /\ [][NextRepl]_vars

-----------------------------------------------------------------------------
(* The dependency relation the claims speak of, stated over ids and        *)
(* independently of the passes above                                       *)

\* x must come after y: a declared or injected `after`, an inverted
\* `before`, or y a subtask of the goal x
DependsOn(ts, x, y) ==
    \E i \in DOMAIN ts :
        \/ ts[i].id = x /\ y \in ts[i].deps.after
        \/ ts[i].id = x /\ IsGoal(ts[i]) /\ y \in RangeOf(ts[i].subtasks)
        \/ ts[i].id = y /\ x \in ts[i].deps.before

RECURSIVE GrowPrereqs(_, _, _)
GrowPrereqs(ts, S, k) ==
    IF k = 0 THEN S
    ELSE GrowPrereqs(ts,
            S \cup {y \in get_ids(ts) : \E z \in S : DependsOn(ts, z, y)}, k - 1)

\* every id x transitively depends on
TransitivePrereqs(ts, x) ==
    GrowPrereqs(ts, {y \in get_ids(ts) : DependsOn(ts, x, y)}, Len(ts))

HasCycle(ts) == \E x \in get_ids(ts) : x \in TransitivePrereqs(ts, x)

-----------------------------------------------------------------------------
\* C1: construction succeeds only on an acyclic dependency graph, and the
\* acyclicity check raises exactly when the graph has a cycle: with `before`
\* inverted and every goal depending on its subtasks, a task list that reaches
\* the check is rejected with the cycle error iff some id reaches itself
\* along `after` edges (the edges of the AST, implicit-order ones included).
C1_CycleIffRejected ==
    /\ pc = "constructed" => ~HasCycle(ast)
    /\ (pc = "failed" /\ error = "cycle") => HasCycle(ast)

\* two steps with mutual `after` references were rejected by the cycle check
C1_Witness ==
    /\ pc = "failed" /\ error = "cycle"
    /\ Len(raw) = 2
    /\ \A i \in 1..2 : IsStep(raw[i]) /\ raw[i].deps.before = {}
    /\ raw[1].deps.after = {raw[2].id}
    /\ raw[2].deps.after = {raw[1].id}
    /\ raw[1].id # raw[2].id

-----------------------------------------------------------------------------
(* Vocabulary of the claims below *)

UniqueIds(ts) == Cardinality(get_ids(ts)) = Len(ts)

StepIds(ts) == {ts[i].id : i \in {j \in DOMAIN ts : IsStep(ts[j])}}
GoalIds(ts) == {ts[i].id : i \in {j \in DOMAIN ts : IsGoal(ts[j])}}

\* s is listed in the subtasks of a goal with id g
SubtaskOf(ts, g, s) ==
    \E i \in DOMAIN ts : ts[i].id = g /\ IsGoal(ts[i]) /\ s \in RangeOf(ts[i].subtasks)

RECURSIVE GrowUnder(_, _, _)
GrowUnder(ts, S, k) ==
    IF k = 0 THEN S
    ELSE GrowUnder(ts,
            S \cup {y \in get_ids(ts) : \E z \in S : SubtaskOf(ts, z, y)}, k - 1)

\* the leaf steps under x: x itself if it is a step, else every step reached
\* from the goal x through subtasks lists
StepsUnder(ts, x) == GrowUnder(ts, {x}, Len(ts)) \cap StepIds(ts)

\* y is a declared prerequisite of x: `after` of x (declared or injected) or
\* `before` of y
Prerequisite(ts, x, y) ==
    \E i \in DOMAIN ts :
        \/ ts[i].id = x /\ y \in ts[i].deps.after
        \/ ts[i].id = y /\ x \in ts[i].deps.before

\* the deps.after of the returned step with id x
AfterOf(steps, x) == steps[get_tasks_in_dict(steps)[x]].deps.after

\* a goal with implicit_deps_by_order lists y before x
ImplicitEdge(ts, x, y) ==
    \E g \in DOMAIN ts :
        /\ IsGoal(ts[g]) /\ ts[g].implicit_deps_by_order
        /\ \E i, j \in DOMAIN ts[g].subtasks :
              i < j /\ ts[g].subtasks[i] = y /\ ts[g].subtasks[j] = x

RECURSIVE GrowOrdered(_, _, _)
GrowOrdered(ts, S, k) ==
    IF k = 0 THEN S
    ELSE GrowOrdered(ts,
            S \cup {y \in get_ids(ts) :
                        \E z \in S : DependsOn(ts, z, y) \/ ImplicitEdge(ts, z, y)},
            k - 1)

\* every id that x comes after, through declared and implicit-order edges
OrderedAfter(ts, x) ==
    GrowOrdered(ts, {y \in get_ids(ts) :
                        DependsOn(ts, x, y) \/ ImplicitEdge(ts, x, y)}, Len(ts))

Normalized == result.op = "normalize_dependencies" /\ result.raised = "none"
Processed == result.op = "from_raw_ast" /\ result.raised = "none"

-----------------------------------------------------------------------------
\* C2: for every goal with implicit_deps_by_order, subtask i has all of
\* subtasks[0..i-1] in its deps.after when the acyclicity check runs and in
\* the constructed TaskAST; a list whose only cycle comes from an
\* implicit-order edge is not constructed; and in the results of
\* normalize_dependencies and ProcessedAST.from_raw_ast a step subtask has the
\* leaf steps of every earlier subtask among its prerequisites.
C2_ImplicitEdgesInjected ==
    /\ (pc \in {"check_deps_graph", "constructed"} \/ error = "cycle") =>
          \A x, y \in get_ids(ast) :
              ImplicitEdge(raw, x, y) =>
                  \E i \in DOMAIN ast : ast[i].id = x /\ y \in ast[i].deps.after
    /\ pc = "constructed" =>
          ~\E x \in get_ids(raw) : x \in OrderedAfter(raw, x)
    /\ Normalized =>
          \A x \in StepIds(raw), y \in get_ids(raw) :
              ImplicitEdge(raw, x, y) =>
                  StepsUnder(raw, y) \subseteq AfterOf(result.value, x)
    /\ Processed =>
          \A x \in StepIds(raw), y \in get_ids(raw) :
              ImplicitEdge(raw, x, y) =>
                  StepsUnder(raw, y) \subseteq result.value[x].deps

\* a goal ordered implicitly was accepted and the pass returned a step that
\* carries an injected prerequisite no task declared
C2_Witness ==
    /\ Normalized
    /\ \E x \in StepIds(raw), y \in StepIds(raw) :
          /\ ImplicitEdge(raw, x, y)
          /\ ~Prerequisite(raw, x, y)
          /\ y \in AfterOf(result.value, x)

-----------------------------------------------------------------------------
UndefinedRefs(ts) ==
    UNION {ts[i].deps.before \cup ts[i].deps.after \cup RangeOf(ts[i].subtasks)
           : i \in DOMAIN ts} \ get_ids(ts)

\* C3: reference closure.  A task list that mentions an undefined id in a
\* deps.before, a deps.after or a subtasks list fails construction (with the
\* reference error, at the first check), and every constructed TaskAST
\* mentions defined ids only.
C3_ReferenceClosure ==
    /\ (UndefinedRefs(raw) # {} /\ pc # "check_refs") =>
          (pc = "failed" /\ error = "undefined_ref")
    /\ pc = "constructed" => UndefinedRefs(ast) = {}

\* a goal whose subtasks list names an undefined id was rejected
C3_Witness ==
    /\ pc = "failed" /\ error = "undefined_ref"
    /\ \E i \in DOMAIN raw :
          /\ IsGoal(raw[i])
          /\ \E s \in RangeOf(raw[i].subtasks) : s \notin get_ids(raw)
    /\ \A i \in DOMAIN raw :
          raw[i].deps.before \cup raw[i].deps.after \subseteq get_ids(raw)

-----------------------------------------------------------------------------
\* C4: task ids are unique in every constructed TaskAST, so that the
\* id-to-task mapping holds every task of the list.
C4_UniqueIds ==
    pc = "constructed" =>
        /\ UniqueIds(ast)
        /\ Cardinality(DOMAIN get_tasks_in_dict(ast)) = Len(ast)

-----------------------------------------------------------------------------
\* the deadline declared by the task with id x
DeadlineOf(ts, x) == ts[get_tasks_in_dict(ts)[x]].deadline

Later(a, b) == a.has /\ b.has /\ DtGreater(a, b)

\* C5: deadline monotonicity over direct prerequisites.  On the working copy
\* with `before` inverted, goal subtasks merged into the goal's `after` and
\* the implicit-order edges injected, construction fails whenever a task with
\* a deadline has in its deps.after an id whose deadline is strictly later;
\* so no constructed TaskAST holds such a pair.
C5_DirectDeadlines ==
    pc = "constructed" =>
        \A t, p \in get_ids(ast) :
            DependsOn(ast, t, p) => ~Later(DeadlineOf(ast, p), DeadlineOf(ast, t))

-----------------------------------------------------------------------------
\* C6: in every constructed TaskAST, no transitive predecessor of a task with
\* a deadline (through `after`, inverted `before` and goal-subtask edges, also
\* through tasks without a deadline) has a later deadline.
C6_TransitiveDeadlines ==
    pc = "constructed" =>
        \A t \in get_ids(ast) :
            \A p \in TransitivePrereqs(ast, t) :
                ~Later(DeadlineOf(ast, p), DeadlineOf(ast, t))

-----------------------------------------------------------------------------
\* C7: after normalize_dependencies on a constructed TaskAST every returned
\* entity is a Step, every returned step has an empty deps.before, and every
\* id in a returned deps.after is the id of a returned Step and of no Goal;
\* the same holds of the deps in the nodes of ProcessedAST.from_raw_ast.
C7_StepsOnly ==
    /\ Normalized =>
          \A i \in DOMAIN result.value :
              /\ IsStep(result.value[i])
              /\ result.value[i].deps.before = {}
              /\ result.value[i].deps.after \subseteq get_ids(result.value)
              /\ result.value[i].deps.after \cap GoalIds(ast) = {}
    /\ Processed =>
          \A x \in DOMAIN result.value :
              /\ result.value[x].deps \subseteq DOMAIN result.value
              /\ result.value[x].deps \cap GoalIds(ast) = {}

\* a step that declared a goal as prerequisite was returned with the goal
\* replaced by a step
C7_Witness ==
    /\ Normalized
    /\ \E x \in StepIds(ast) :
          /\ \E g \in GoalIds(ast) : Prerequisite(ast, x, g)
          /\ AfterOf(result.value, x) # {}

-----------------------------------------------------------------------------
\* what goal expansion is to leave in the deps.after of the step x
ExpandedPrereqs(ts, x) ==
    UNION {StepsUnder(ts, y) : y \in {z \in get_ids(ts) : Prerequisite(ts, x, z)}}

\* C8: goal expansion.  In the result of normalize_dependencies the
\* prerequisites of a step are its step prerequisites, unchanged, together
\* with, for each goal prerequisite, exactly the leaf steps found under that
\* goal through nested subtasks lists; for the task list of
\* test_implicit_deps the ProcessedAST has deps(task-a) = {task-b},
\* deps(task-b) = {task-c} and deps(task-c) = {}.
C8_GoalExpansion ==
    /\ Normalized =>
          \A x \in StepIds(ast) : AfterOf(result.value, x) = ExpandedPrereqs(ast, x)
    /\ (raw = test_implicit_deps /\ result.op = "from_raw_ast") =>
          /\ result.raised = "none"
          /\ DOMAIN result.value = {1, 2, 3}
          /\ result.value[1].deps = {2}
          /\ result.value[2].deps = {3}
          /\ result.value[3].deps = {}

\* test_implicit_deps was processed: task-a waits for the leaf under goal-b
C8_Witness ==
    /\ raw = test_implicit_deps
    /\ Processed
    /\ result.value[1].deps = {2}

-----------------------------------------------------------------------------
\* C9: normalization preserves every declared precedence among leaf steps,
\* also when the dependent side is a goal: if t must come after p (an
\* `after` of t, a `before` of p or an implicit-order edge), every leaf step
\* under t has every leaf step under p in its deps.after.  Stated for task
\* lists with unique ids and for t, p with no leaf step in common.
C9_PrecedencePreserved ==
    (Normalized /\ UniqueIds(ast)) =>
        \A t, p \in get_ids(ast) :
            (Prerequisite(ast, t, p)
                /\ StepsUnder(ast, t) \cap StepsUnder(ast, p) = {}) =>
                \A s \in StepsUnder(ast, t) :
                    StepsUnder(ast, p) \subseteq AfterOf(result.value, s)

-----------------------------------------------------------------------------
\* the instant of an aware datetime, in hours on the UTC clock
Instant(dt) == dt.wall - UtcOffset(dt.tz)

\* a declared deadline as update_timezone localizes it
Localized(t, default) ==
    ReplaceTzinfo(t.deadline, IF t.timezone # "none" THEN t.timezone ELSE default)

\* C10: for every valid TaskAST propogate_properties completes without error
\* and, for every goal with a deadline, each direct subtask's resulting
\* deadline is the earlier of its own deadline and the goal's, or the goal's
\* when it had none; in particular when both declare a deadline.  Stated for
\* task lists with unique ids.
C10_DeadlinePropagation ==
    (result.op = "propogate_properties" /\ UniqueIds(ast)) =>
        /\ result.raised = "none"
        /\ \A g \in DOMAIN ast :
              (IsGoal(ast[g]) /\ ast[g].deadline.has) =>
                  \A s \in RangeOf(ast[g].subtasks) :
                      LET new == DeadlineOf(result.value, s)
                          goal == DeadlineOf(result.value, ast[g].id)
                          old == ast[get_tasks_in_dict(ast)[s]]
                      IN /\ new.has
                         /\ Instant(new) <= Instant(goal)
                         /\ old.deadline.has =>
                               Instant(new) <=
                                   Instant(Localized(old, config.default_tz))
                         /\ \/ Instant(new) = Instant(goal)
                            \/ /\ old.deadline.has
                               /\ Instant(new) =
                                     Instant(Localized(old, config.default_tz))

-----------------------------------------------------------------------------
Propagated == result.op = "propogate_properties" /\ result.raised = "none"

\* C11: after propogate_properties, for each goal with a deadline, every
\* step reached from it through subtasks lists of any depth has a deadline
\* whose instant is not later than the instant of the goal's deadline, also
\* when timezones differ or the configuration default is used.
C11_DescendantDeadlines ==
    Propagated =>
        \A g \in GoalIds(ast) :
            DeadlineOf(result.value, g).has =>
                \A s \in StepsUnder(ast, g) :
                    /\ DeadlineOf(result.value, s).has
                    /\ Instant(DeadlineOf(result.value, s))
                          <= Instant(DeadlineOf(result.value, g))

-----------------------------------------------------------------------------
RECURSIVE Power(_, _)
Power(b, e) == IF e = 0 THEN 1 ELSE b * Power(b, e - 1)

Occurrences(seq, x) == Cardinality({i \in DOMAIN seq : seq[i] = x})

RECURSIVE GoalFactors(_, _, _, _)
\* the product, over the goals at positions 1..g of the list and over each
\* listing of x in their subtasks, of the goal's propagated priority
GoalFactors(ts, res, x, g) ==
    IF g = 0 THEN 1
    ELSE GoalFactors(ts, res, x, g - 1)
            * (IF IsGoal(ts[g])
               THEN Power(res[g].priority, Occurrences(ts[g].subtasks, x))
               ELSE 1)

\* C12: after propogate_properties on a TaskAST whose declared priorities are
\* all >= 1, every direct subtask of a goal has a priority >= the goal's,
\* and every task's priority is its declared priority multiplied by the
\* propagated priority of each goal that lists it.
C12_PriorityPropagation ==
    (Propagated /\ \A i \in DOMAIN ast : ast[i].priority >= 1) =>
        /\ \A g \in DOMAIN ast :
              IsGoal(ast[g]) =>
                  \A k \in DOMAIN ast :
                      ast[k].id \in RangeOf(ast[g].subtasks) =>
                          result.value[k].priority >= result.value[g].priority
        /\ \A k \in DOMAIN ast :
              result.value[k].priority
                  = ast[k].priority * GoalFactors(ast, result.value, ast[k].id, Len(ast))

\* a goal of priority 2 pushed its priority down to a subtask
C12_Witness ==
    /\ Propagated
    /\ \E g \in DOMAIN ast :
          /\ IsGoal(ast[g]) /\ ast[g].priority = 2
          /\ \E s \in RangeOf(ast[g].subtasks) :
                result.value[get_tasks_in_dict(ast)[s]].priority
                    > ast[get_tasks_in_dict(ast)[s]].priority

-----------------------------------------------------------------------------
\* C13: idempotence of propagation.  A second propogate_properties, run on
\* the TaskAST the first run returned, completes and returns an equal
\* TaskAST: the same deadline, timezone and priority for every task.
C13_Idempotent ==
    result.op = "propogate_properties_twice" =>
        /\ result.raised = "none"
        /\ result.value.second = result.value.first

-----------------------------------------------------------------------------
\* a recorded result is one the pass can return on the TaskAST as it is now
ResultOfAst ==
    /\ result.op = "normalize_dependencies" =>
          /\ result.value = normalize_dependencies(ast).steps
          /\ result.raised = normalize_dependencies(ast).raised
    /\ Propagated =>
          \E r \in propogate_properties(ast, config.default_tz) :
              r.raised = "none" /\ r.tasks = result.value
    /\ Processed =>
          \E r \in from_raw_ast(ast, config.default_tz) :
              r.raised = "none" /\ r.nodes = result.value

-----------------------------------------------------------------------------
(* The optimizer's claims, over the calls of schedule()                    *)

Returned == sched.stage = "returned"

\* the ids of the input's nodes with status todo, and with status done
LiveIds == get_nodes(sched.input.past.nodes)

DoneIds == DOMAIN sched.input.past.nodes \ LiveIds

\* a live step names a done step among its deps
DonePrerequisite ==
    \E id \in LiveIds : sched.input.past.nodes[id].deps \cap DoneIds # {}

\* from_processed_ast has been called on the input
Built == sched.stage # "from_processed_ast"

(* C15: only todo steps are modelled and a done prerequisite is dropped:   *)
(* when a live step's deps name a done step, building the model does not   *)
(* fail on that id, the Schedule returned has an entry for each live step  *)
(* and for no done step, and in it a live step starts after the end of     *)
(* each of its live prerequisites.                                         *)
C15_DonePrerequisiteDropped ==
    (Built /\ DonePrerequisite) =>
        /\ sched.raised # "KeyError"
        /\ Returned =>
              /\ DOMAIN sched.schedule.schedule = LiveIds
              /\ \A id \in LiveIds :
                    \A p \in sched.input.past.nodes[id].deps \cap LiveIds :
                        sched.schedule.schedule[p].end <= sched.schedule.schedule[id].start

\* the entry of a task in the Schedule returned
Detail(id) == sched.schedule.schedule[id]

ModelledIds == DOMAIN sched.schedule.schedule

(* C16: precedence in the emitted schedule: in any Schedule returned by    *)
(* schedule(), every modelled task starts no earlier than the end of each  *)
(* task in its deps, whatever the lengths of the two, zero included.       *)
C16_Precedence ==
    Returned =>
        \A i \in ModelledIds : \A j \in sched.input.past.nodes[i].deps :
            Detail(j).end <= Detail(i).start

\* a Schedule is returned in which a task of length 0 is the prerequisite
\* of a task that runs, and the latter starts after the window's start
C16_Witness ==
    /\ Returned
    /\ \E i \in ModelledIds : \E j \in sched.input.past.nodes[i].deps :
          /\ Detail(j).length = 0
          /\ Detail(i).length > 0
          /\ Detail(i).start > sched.schedule.schedule_start

(* C17: single worker: in any Schedule returned by schedule(), of two     *)
(* distinct tasks with length > 0 one ends no later than the other starts. *)
C17_SingleWorker ==
    Returned =>
        \A i, j \in ModelledIds :
            (i # j /\ Detail(i).length > 0 /\ Detail(j).length > 0) =>
                \/ Detail(i).end <= Detail(j).start
                \/ Detail(j).end <= Detail(i).start

\* a Schedule is returned in which two tasks run, neither of them a
\* prerequisite of the other, one right after the other
C17_Witness ==
    /\ Returned
    /\ \E i, j \in ModelledIds :
          /\ i # j
          /\ Detail(i).length > 0
          /\ Detail(j).length > 0
          /\ sched.input.past.nodes[i].deps = {}
          /\ sched.input.past.nodes[j].deps = {}
          /\ Detail(i).end = Detail(j).start

\* the merged background blocks of the input that last some time
MergedBlocks ==
    LET blocks == get_background_blocks(sched.input.past.bg)
    IN {blocks[i] : i \in {k \in DOMAIN blocks : blocks[k].end > blocks[k].begin}}

(* C18: background exclusion: in any Schedule returned by schedule(), no   *)
(* task with length > 0 overlaps in time a merged background block, also   *)
(* when the block's begin or duration is not a whole number of slots from  *)
(* the snapped start, when it is shorter than a slot, and when it begins   *)
(* before the window.                                                      *)
C18_BackgroundExclusion ==
    Returned =>
        \A i \in ModelledIds : \A b \in MergedBlocks :
            Detail(i).length > 0 =>
                \/ Detail(i).end <= b.begin
                \/ b.end <= Detail(i).start

\* the tasks of the returned Schedule that run
Scheduled == {i \in ModelledIds : Detail(i).length > 0}

(* C19: length zero means not scheduled, also for dependencies: in every   *)
(* Schedule the pipeline emits, a task with length > 0 has all of its      *)
(* prerequisites with length > 0; and for the chain A..F of one-slot tasks *)
(* in a three-slot window, schedule() returns, the scheduled tasks are     *)
(* exactly A, B, C in that order and the total utility is 3 * YSCALE.      *)
C19_ZeroLengthUnscheduled ==
    /\ Returned =>
          \A i \in Scheduled : sched.input.past.nodes[i].deps \subseteq Scheduled
    /\ (sched.input = test_prereq_enforcement /\ Built) =>
          /\ sched.raised = "none"
          /\ Returned =>
                /\ Scheduled = {"a", "b", "c"}
                /\ Detail("a").end <= Detail("b").start
                /\ Detail("b").end <= Detail("c").start
                /\ SumOver([i \in ModelledIds |-> Detail(i).utility], ModelledIds)
                      = 3 * YSCALE

\* the sums of the returned Schedule's solution
FinalUtility == SumOver([i \in ModelledIds |-> Detail(i).utility], ModelledIds)

FinalLen == SumOver([i \in ModelledIds |-> Detail(i).length], ModelledIds)

\* the slots of the returned solution, as an assignment of the model
FinalAssignment ==
    [i \in ModelledIds |->
        [start |-> (Detail(i).start - sched.schedule.schedule_start) \div SlotTicks,
         len |-> Detail(i).length]]

\* the largest sum of cuf the returned solution's utilities allow
FinalCuf ==
    cuf_prod_sum(FinalAssignment, sched.model,
                 [i \in ModelledIds |-> Detail(i).utility])
    + CufIntSum(FinalAssignment, sched.model)

\* assignment a of the model meets both floors, with utilities on the curve
MeetsFloors(a) ==
    /\ UtilitySum(a, sched.model) >= sched.utility_floor
    /\ cuf_prod_sum(a, sched.model, utility_max(a, sched.model))
          + CufIntSum(a, sched.model) >= sched.cuf_floor

(* C20: lexicographic domination across the three solves: the floors are   *)
(* added in the order utility, cuf, each before the next solve; the second *)
(* solve's solution has a sum of utilities at least the first floor U*;    *)
(* the final solution has a sum of utilities at least U* and a sum of cuf  *)
(* at least the second floor CUF*; and the final sum of lengths is at most *)
(* that of any assignment that satisfies the constraints and both floors.  *)
C20_LexicographicDomination ==
    /\ sched.stage \in {"from_processed_ast", "to_total_utility_model", "to_cuf_model"}
          => sched.utility_floor = 0 /\ sched.cuf_floor = 0
    /\ sched.stage = "to_interval_model" => sched.cuf_floor = 0 /\ sched.stage2 = <<>>
    /\ sched.stage \in {"to_schedule", "returned"} =>
          /\ sched.stage2.utility >= sched.utility_floor
          /\ sched.stage2.cuf = sched.cuf_floor
    /\ Returned =>
          /\ FinalUtility >= sched.utility_floor
          /\ FinalCuf >= sched.cuf_floor
          /\ \A a \in Feasible(sched.model) :
                MeetsFloors(a) => FinalLen <= LenSum(a, sched.model)

(* C21: solver outcome handling: a Schedule is extracted and returned only *)
(* if each of the three solves reported OPTIMAL or FEASIBLE; a solve that  *)
(* reports INFEASIBLE fails with the infeasible error, one that reports    *)
(* UNKNOWN with the limit error, and after any other status no schedule is *)
(* extracted; once a solve failed no later solve is run.                   *)
C21_SolverOutcomes ==
    LET n == Len(sched.statuses)
        good(i) == sched.statuses[i] \in {"OPTIMAL", "FEASIBLE"}
    IN /\ sched.stage = "returned" => n = 3 /\ \A i \in 1..n : good(i)
       /\ \A i \in 1..n :
             /\ sched.statuses[i] = "INFEASIBLE" => sched.raised = "No solution found."
             /\ sched.statuses[i] = "UNKNOWN" => sched.raised = "Limit reached"
             /\ ~good(i) => i = n /\ sched.stage = "raised"

\* the same for the statuses that BasicModel.solve names
NamedStatusesHandled ==
    (\A i \in 1..Len(sched.statuses) : sched.statuses[i] # "MODEL_INVALID")
        => C21_SolverOutcomes

\* the start of the input's window brought to its slot mark
SnappedStart == snap_start(sched.input.schedule_start)

\* from_processed_ast returned a model
HasModel == "total_slots" \in DOMAIN sched.model

(* C22: window validation: whenever the schedule end is not strictly after *)
(* the snapped schedule start (end <= snapped start, end equal to it       *)
(* included), building the model fails with the window error and no model  *)
(* is built.                                                               *)
C22_WindowValidation ==
    (Built /\ sched.input.schedule_end <= SnappedStart) =>
        /\ sched.stage = "raised"
        /\ sched.raised = "RuntimeError"
        /\ ~HasModel

\* an end before the snapped start is rejected
EndBeforeStartRejected ==
    (Built /\ sched.input.schedule_end < SnappedStart) =>
        /\ sched.stage = "raised"
        /\ sched.raised = "RuntimeError"
        /\ ~HasModel

(* C23: start snapping: the schedule start the model uses is the least     *)
(* time at or after the requested start that is a whole number of slots    *)
(* from local midnight of the requested day; so it is less than one slot   *)
(* after the requested start, and a start on a slot mark is unchanged.     *)
C23_StartSnapping ==
    HasModel =>
        LET start == sched.input.schedule_start
            used == sched.model.schedule_start
        IN /\ used >= start
           /\ used % SlotTicks = 0
           /\ \A t \in start..(used - 1) : t % SlotTicks # 0
           /\ used - start < SlotTicks
           /\ (start % SlotTicks = 0 => used = start)

C23_Witness ==
    /\ HasModel
    /\ sched.input.schedule_start % SlotTicks # 0
    /\ sched.model.schedule_start > sched.input.schedule_start

(* C24: slot alignment and bounds of the emitted schedule: every entry of  *)
(* a returned Schedule has slots 0 <= s <= e <= T with start and end s and *)
(* e slots after the schedule start, e - s its length, and the length at   *)
(* most twice the task's duration; so no task starts before the snapped    *)
(* start or ends after the schedule end, and the entries are the live      *)
(* steps, one each.                                                        *)
C24_AlignmentAndBounds ==
    Returned =>
        LET T == sched.model.total_slots
            start0 == sched.schedule.schedule_start
        IN /\ ModelledIds = LiveIds
           /\ start0 = SnappedStart
           /\ \A id \in ModelledIds :
                 /\ \E s \in 0..T : \E e \in s..T :
                       /\ Detail(id).start = start0 + s * SlotTicks
                       /\ Detail(id).end = start0 + e * SlotTicks
                       /\ e - s = Detail(id).length
                 /\ Detail(id).length <= 2 * sched.input.past.nodes[id].duration
                 /\ Detail(id).start >= SnappedStart
                 /\ Detail(id).end <= sched.input.schedule_end

\* a Schedule with a task up to the last slot of a window that began off a mark
C24_Witness ==
    /\ Returned
    /\ sched.input.schedule_start < SnappedStart
    /\ \E id \in ModelledIds :
          /\ Detail(id).length > 0
          /\ Detail(id).end = SnappedStart + sched.model.total_slots * SlotTicks

\* the last handle_schedule served its Schedule from the cache
CacheHit == state.served = "cache"

(* C25: REPL cache coherence: over any sequence of import_tasks and        *)
(* handle_schedule calls, a Schedule that handle_schedule serves from the  *)
(* cache was computed from a ProcessedAST equal to the one loaded now, for *)
(* the same window; never from a different one, such as one whose fetched  *)
(* background calendar differed while the source text was the same.        *)
C25_CacheCoherence ==
    CacheHit => state.schedule.of = state.processed

\* a Schedule served from the cache was computed from the same task list
CacheHitSameTasks ==
    CacheHit => state.schedule.of.nodes = state.processed.nodes

\* to_total_utility_model has added the deadline indicators to the model
IndicatorsBuilt == sched.stage = "to_cuf_model"

\* the nodes of the model with and without a deadline
Deadlined == {id \in DOMAIN sched.model.nodes : sched.model.nodes[id].deadline # NoTick}

Undeadlined == DOMAIN sched.model.nodes \ Deadlined

(* C26: deadline clipping: for every task with deadline slot k, in every   *)
(* assignment satisfying the model exactly one of before_ddl, clipped,     *)
(* after_ddl is true, the one whose condition holds (end <= k; start <= k  *)
(* < end; k < start), and the available time is len, k - start, 0 in the   *)
(* three cases, so min(len, k - start) whenever start <= k; for a task     *)
(* without deadline the available time is len.                             *)
C26_DeadlineClipping ==
    IndicatorsBuilt =>
        \A a \in Feasible(sched.model) :
           /\ \A id \in Deadlined :
                 LET k == converted_ddl(sched.model, id)
                     start == a[id].start
                     end == end_expr(a, id)
                     len == a[id].len
                     sols == deadline_indicators(a, sched.model, id)
                 IN /\ Cardinality(sols) = 1
                    /\ \A v \in sols :
                          /\ v.before_ddl <=> end <= k
                          /\ v.clipped <=> (start <= k /\ k < end)
                          /\ v.after_ddl <=> k < start
                          /\ end <= k => v.available_time = len
                          /\ (start <= k /\ k < end) => v.available_time = k - start
                          /\ k < start => v.available_time = 0
                          /\ start <= k => v.available_time = MinOf({len, k - start})
                          /\ v.available_time = available_time(a, sched.model, id)
           /\ \A id \in Undeadlined :
                 available_times(a, sched.model, id) = {a[id].len}

\* a model whose assignments put a task with a deadline into each of the
\* three cases
C26_Witness ==
    /\ IndicatorsBuilt
    /\ \E id \in Deadlined :
          /\ \E a \in Feasible(sched.model) :
                \E v \in deadline_indicators(a, sched.model, id) :
                   v.clipped /\ v.available_time > 0 /\ v.available_time < a[id].len
          /\ \E a \in Feasible(sched.model) :
                \E v \in deadline_indicators(a, sched.model, id) :
                   v.before_ddl /\ v.available_time > 0
          /\ \E a \in Feasible(sched.model) :
                \E v \in deadline_indicators(a, sched.model, id) :
                   v.after_ddl /\ a[id].len > 0

\* from_processed_ast has called get_background_blocks
BlocksCollected ==
    Built /\ ~(sched.stage = "raised" /\ sched.raised = "RuntimeError")

\* the instants of a block, doubled so that the gap between two blocks
\* one tick apart has an instant of its own
Cover(block) == (2 * block.begin)..(2 * block.end)

CoverOf(blocks) == UNION {Cover(blocks[i]) : i \in DOMAIN blocks}

(* C27: background merging: for a non-empty collection of background       *)
(* blocks get_background_blocks returns blocks sorted by begin, each       *)
(* ending strictly before the next begins (disjoint and not touching),     *)
(* whose union is exactly the union of the input blocks; a block inside,   *)
(* overlapping or touching an earlier one is absorbed into it.             *)
C27_BackgroundMerging ==
    (BlocksCollected /\ sched.input.past.bg # <<>>) =>
        LET final == get_background_blocks(sched.input.past.bg)
        IN /\ Len(final) >= 1
           /\ \A i \in DOMAIN final : final[i] # NoneBlock
           /\ \A i \in 1..(Len(final) - 1) : final[i].end < final[i + 1].begin
           /\ CoverOf(final) = CoverOf(sched.input.past.bg)

\* three blocks given out of order, of which two touch and become one
C27_Witness ==
    /\ BlocksCollected
    /\ Len(sched.input.past.bg) = 3
    /\ sched.input.past.bg[1].begin > sched.input.past.bg[2].begin
    /\ Len(get_background_blocks(sched.input.past.bg)) = 1
    /\ \E i, j \in DOMAIN sched.input.past.bg :
          sched.input.past.bg[i].end = sched.input.past.bg[j].begin

\* every task at slot 0 with length 0
ZeroAssignment == [id \in DOMAIN sched.model.nodes |-> [start |-> 0, len |-> 0]]

\* a background interval of the model has slot 0 strictly inside
BlockOverStart ==
    \E b \in DOMAIN sched.model.bg_blocks :
       /\ sched.model.bg_blocks[b].start < 0
       /\ sched.model.bg_blocks[b].start + sched.model.bg_blocks[b].size > 0

(* C28: zero length is always feasible: for every model built (acyclic     *)
(* live dependencies, any merged background blocks, any window with T >=   *)
(* 0) the assignment that gives every task start = end = 0 satisfies all   *)
(* constraints of the first model: no-overlap, precedence and the deadline *)
(* indicators; hence the first solve never reports INFEASIBLE.             *)
C28_ZeroLengthFeasible ==
    HasModel =>
        /\ ZeroAssignment \in Feasible(sched.model)
        /\ \A id \in DOMAIN sched.model.nodes :
              available_times(ZeroAssignment, sched.model, id) # {}
        /\ sched.raised # "No solution found."

\* the same where no background interval has slot 0 strictly inside
ZeroFeasibleOutsideBlocks ==
    (HasModel /\ ~BlockOverStart) =>
        /\ ZeroAssignment \in Feasible(sched.model)
        /\ \A id \in DOMAIN sched.model.nodes :
              available_times(ZeroAssignment, sched.model, id) # {}
        /\ sched.raised # "No solution found."

\* the ProcessedAST has no background item that yields a block
NoBackground == sched.input.past.bg = <<>>

(* C29: no background obligations is a valid input: when nothing is        *)
(* collected, get_background_blocks returns an empty list,                 *)
(* from_processed_ast adds no background interval and completes without    *)
(* error, and the Schedule is constrained by no-overlap among tasks and    *)
(* precedence only.                                                        *)
C29_NoBackgroundValid ==
    (BlocksCollected /\ NoBackground) =>
        /\ get_background_blocks(sched.input.past.bg) = <<>>
        /\ sched.raised # "AttributeError"
        /\ (~DonePrerequisite => HasModel /\ sched.model.bg_blocks = <<>>)

\* the goals from which the task with id x is reached through subtasks lists
AncestorGoals(ts, x) ==
    {g \in GoalIds(ts) \ {x} : x \in GrowUnder(ts, {g}, Len(ts))}

RECURSIVE ProductOver(_, _)
ProductOver(f, S) ==
    IF S = {} THEN 1
    ELSE LET x == CHOOSE y \in S : TRUE IN f[x] * ProductOver(f, S \ {x})

\* the declared priority of each ancestor goal of x, each goal once
AncestorProduct(ts, x) ==
    ProductOver([g \in AncestorGoals(ts, x) |-> ts[get_tasks_in_dict(ts)[g]].priority],
                AncestorGoals(ts, x))

\* a goal lists the same id twice
ListedTwice(ts) ==
    \E g \in DOMAIN ts :
       IsGoal(ts[g]) /\ \E x \in RangeOf(ts[g].subtasks) : Occurrences(ts[g].subtasks, x) > 1

(* C30: goal properties are pushed down exactly once: after                *)
(* propogate_properties each step's priority is its declared priority      *)
(* multiplied by the declared priority of each of its distinct ancestor    *)
(* goals, each exactly once, also when the step is reached from a goal     *)
(* along more than one path or is listed more than once in a subtasks      *)
(* list.  Stated for task lists with unique ids.                           *)
C30_PushedDownOnce ==
    (Propagated /\ UniqueIds(ast)) =>
        \A k \in DOMAIN ast :
            IsStep(ast[k]) =>
                result.value[k].priority
                    = ast[k].priority * AncestorProduct(ast, ast[k].id)

\* some id is listed by two goals
TwoParents(ts) ==
    \E x \in get_ids(ts) : Cardinality({g \in GoalIds(ts) : SubtaskOf(ts, g, x)}) > 1

\* the same where every id is listed at most once over all subtasks lists
PushedDownOnceInTrees ==
    ListedTwice(ast) \/ TwoParents(ast) \/ C30_PushedDownOnce

\* the step that a goal and its sub-goal both list gets the goal's priority twice
SharedStepPushedTwice ==
    (Propagated /\ ast = shared_step) => result.value[1].priority = 4

-----------------------------------------------------------------------------
(* The constructor accepts task lists in which two tasks share an id (C4). *)
(* Among the task lists whose ids are unique the statements C1, C2, C7 and *)
(* C8 hold: every violation of them comes from a shared id.                *)

AcyclicityAmongUniqueIds == UniqueIds(raw) => C1_CycleIffRejected
ImplicitEdgesAmongUniqueIds == UniqueIds(raw) => C2_ImplicitEdgesInjected
StepsOnlyAmongUniqueIds == UniqueIds(raw) => C7_StepsOnly
GoalExpansionAmongUniqueIds == UniqueIds(raw) => C8_GoalExpansion

\* and so does C12, for which a task whose id is repeated later in the list
\* is never reached by propagation
PriorityPropagationAmongUniqueIds == UniqueIds(raw) => C12_PriorityPropagation

====
